---- MODULE Spec2Model ----
(***************************************************************************)
(* A model of class CameraCalibration (src/camera_calibration.py): the two *)
(* fields of the calibrator, the calibration files on disk, the file       *)
(* handles the operations open, and the four public operations.  The       *)
(* calibration run is modelled step by step (one step per loop iteration), *)
(* the other operations run to completion in one step.  The vision library *)
(* (cv) is an external collaborator: its numeric outputs are chosen        *)
(* nondeterministically, its documented failures are modelled.             *)
(***************************************************************************)
EXTENDS Integers, Sequences, FiniteSets, TLC

VARIABLES cameraMatrix, distCoeff, files, openHandles, last, pristine,
          pc, images, idx, objpoints, imgpoints

vars == <<cameraMatrix, distCoeff, files, openHandles, last, pristine,
          pc, images, idx, objpoints, imgpoints>>

calib == <<cameraMatrix, distCoeff>>
runVars == <<images, idx, objpoints, imgpoints>>

(* ------------------------------ bounds --------------------------------- *)
\* largest number of files the glob pattern matches
MaxImages == 2
\* largest width and height (in pixels) of an input image or output size
MaxDim == 2

(* ------------------------------ values --------------------------------- *)
\* Python's None, a numpy array and a nested Python list holding the numbers
\* of array v.
None == [t |-> "None", v |-> 0]
Array(v) == [t |-> "ndarray", v |-> v]
List(v) == [t |-> "list", v |-> v]
\* the (camera matrix, distortion coefficients) pairs drawn as inputs and as
\* results of cv.calibrateCamera
Params == {<<Array(1), Array(3)>>, <<Array(2), Array(4)>>}

\* np.asarray(x).tolist()
tolist(x) == IF x.t = "ndarray" THEN List(x.v) ELSE x

(* ----------------------------- file system ----------------------------- *)
\* A path is the sequence of its components; <<>> is the empty string ""
\* (the working directory when a file name is joined to it).
Cwd == <<>>
ImageDir == <<"image">>
NoDir == <<"nodir">>
Dirs == {Cwd, ImageDir}
PklName == "calibration.pkl"
NpzName == "calibration.npz"
PklFile == <<PklName>>
NpzFile == <<NpzName>>
BadYaml == <<"bad.yaml">>
BadNpz == <<"bad.npz">>
FilePaths == {PklFile, NpzFile, BadYaml, BadNpz}
SavePaths == {Cwd, NoDir}
ReadPaths == FilePaths \cup {Cwd, ImageDir, <<"missing.pkl">>}

Formats == {"pkl", "yaml", "npz"}
FormatInputs == Formats \cup {"txt"}

NoFile == [fmt |-> "none"]
PklContent(cm, dc) == [fmt |-> "pkl", cm |-> cm, dc |-> dc]
YamlContent(keys, cm, dc) == [fmt |-> "yaml", keys |-> keys, cm |-> cm, dc |-> dc]
NpzContent(keys, cm, dc) == [fmt |-> "npz", keys |-> keys, cm |-> cm, dc |-> dc]

\* os.path.join(path, name)
join(path, name) == Append(path, name)
\* the directory a file path lies in
dirname(path) == SubSeq(path, 1, Len(path) - 1)
\* os.path.exists(path)
exists(path) ==
    /\ path # Cwd
    /\ \/ path \in Dirs
       \/ path \in FilePaths /\ files[path] # NoFile
\* open(path, mode) succeeds
canOpenWrite(path) == dirname(path) \in Dirs /\ path \notin Dirs
canOpenRead(path) == path \in FilePaths /\ files[path] # NoFile

(* ------------------------- save_calibration_data ----------------------- *)
\* the file name save_calibration_data joins to savepath
SaveFileName(fmt) == IF fmt = "npz" THEN NpzName ELSE PklName

\* a plausible slip: the pair is written in the wrong order
SaveContent_Swapped(fmt, cm, dc) ==
    CASE fmt = "pkl" -> PklContent(dc, cm)
      [] fmt = "yaml" ->
            YamlContent({"camera_matrix", "dist_coeff"}, tolist(dc), tolist(cm))
      [] fmt = "npz" -> NpzContent({"camMatrix", "distCoeff"}, dc, cm)

\* what save_calibration_data puts in the file
SaveContent(fmt, cm, dc) ==
    CASE fmt = "pkl" -> PklContent(cm, dc)
      [] fmt = "yaml" ->
            YamlContent({"camera_matrix", "dist_coeff"}, tolist(cm), tolist(dc))
      [] fmt = "npz" -> NpzContent({"camMatrix", "distCoeff"}, cm, dc)

\* a plausible slip: an unrecognized format is rejected, as the reader does
SaveOutcome_RejectsUnknown(fs, path, fmt, cm, dc) ==
    IF fmt \notin Formats
    THEN [result |-> "unsupported-format", files |-> fs, written |-> {}]
    ELSE LET target == join(path, SaveFileName(fmt))
         IN IF canOpenWrite(target)
            THEN [result |-> "ok",
                  files |-> [fs EXCEPT ![target] = SaveContent(fmt, cm, dc)],
                  written |-> {target}]
            ELSE [result |-> "os-error", files |-> fs, written |-> {}]

\* save_calibration_data on file system fs: the exit (normal or the OSError
\* of open), the file system it leaves and the files it wrote.  Each branch
\* opens its file in a with block (np.savez closes its own), so no handle
\* outlives the call.
SaveOutcome(fs, path, fmt, cm, dc) ==
    IF fmt \notin Formats
    THEN [result |-> "ok", files |-> fs, written |-> {}]
    ELSE LET target == join(path, SaveFileName(fmt))
         IN IF canOpenWrite(target)
            THEN [result |-> "ok",
                  files |-> [fs EXCEPT ![target] = SaveContent(fmt, cm, dc)],
                  written |-> {target}]
            ELSE [result |-> "os-error", files |-> fs, written |-> {}]

(* ------------------------- read_calibration_data ----------------------- *)
Failure(kind, held) ==
    [result |-> kind, cm |-> None, dc |-> None, held |-> held]
Loaded(cm, dc, held) ==
    [result |-> "ok", cm |-> cm, dc |-> dc, held |-> held]

\* the branch of read_calibration_data for a supported format, on a path
\* that exists: the exit, the values read, and whether an NpzFile (which
\* keeps the archive open) was created.  A directory cannot be opened; a
\* file written in another format cannot be decoded (np.load closes the
\* file itself when it recognizes no archive).
ReadAs(path, fmt) ==
    IF ~canOpenRead(path) THEN Failure("os-error", FALSE)
    ELSE LET f == files[path]
         IN CASE fmt = "pkl" ->
                   IF f.fmt = "pkl" THEN Loaded(f.cm, f.dc, FALSE)
                   ELSE Failure("decode-error", FALSE)
              [] fmt = "yaml" ->
                   IF f.fmt # "yaml" THEN Failure("decode-error", FALSE)
                   ELSE IF ~({"camera_matrix", "dist_coeff"} \subseteq f.keys)
                   THEN Failure("invalid-format", FALSE)
                   ELSE Loaded(f.cm, f.dc, FALSE)
              [] fmt = "npz" ->
                   IF f.fmt # "npz" THEN Failure("decode-error", FALSE)
                   ELSE IF ~({"camMatrix", "distCoeff"} \subseteq f.keys)
                   THEN Failure("invalid-format", TRUE)
                   ELSE Loaded(f.cm, f.dc, TRUE)

\* a plausible slip: an unrecognized format is read as the default "pkl"
ReadDispatch_DefaultsToPkl(path, fmt) ==
    ReadAs(path, IF fmt \in Formats THEN fmt ELSE "pkl")

\* the if / elif chain on readformat, with its final else
ReadDispatch(path, fmt) ==
    IF fmt \notin Formats THEN Failure("unsupported-format", FALSE)
    ELSE ReadAs(path, fmt)

\* a plausible slip: the format is validated before the path
ReadOutcome_FormatFirst(path, fmt) ==
    IF fmt \notin Formats THEN Failure("unsupported-format", FALSE)
    ELSE IF ~exists(path) THEN Failure("missing-file", FALSE)
    ELSE ReadAs(path, fmt)

\* read_calibration_data up to its assignments
ReadOutcome(path, fmt) ==
    IF ~exists(path) THEN Failure("missing-file", FALSE)
    ELSE ReadDispatch(path, fmt)

\* The handles open when a read exits.  The pkl and yaml branches use with
\* blocks.  The npz branch never closes the NpzFile: on a normal return the
\* last reference is dropped with the frame and the object's finalizer
\* closes the archive; when the call raises, the traceback keeps the frame,
\* and with it the NpzFile and its open archive.
HandlesAtExit(handles, path, out) ==
    IF out.held /\ out.result # "ok" THEN handles \cup {path} ELSE handles

(* --------------------------- remove_distortion ------------------------- *)
Methods == {"default", "Remapping"}
MethodInputs == Methods \cup {"fast"}

\* the length of a[lo:hi] for an axis of length n (0 <= lo <= hi)
SliceLen(lo, hi, n) ==
    LET a == IF lo < n THEN lo ELSE n
        b == IF hi < n THEN hi ELSE n
    IN IF b > a THEN b - a ELSE 0

\* a plausible slip: the check of the stored parameters is left out
NotPopulated_Unchecked(cm, dc) == FALSE

\* the check of the stored parameters
NotPopulated(cm, dc) == cm = None \/ dc = None

\* a plausible slip: the stored parameters are checked before the method
DistortionError_StateFirst(method, cm, dc) ==
    IF NotPopulated(cm, dc) THEN "precondition"
    ELSE IF method \notin Methods THEN "invalid-argument"
    ELSE "none"

\* the two argument checks, in the order of the code
DistortionError(method, cm, dc) ==
    IF method \notin Methods THEN "invalid-argument"
    ELSE IF NotPopulated(cm, dc) THEN "precondition"
    ELSE "none"

\* cv.resize(dst, img_size): an empty source is an error of the library
Resize(cw, ch, size) ==
    IF cw = 0 \/ ch = 0 THEN [result |-> "cv-error", out |-> <<0, 0>>]
    ELSE [result |-> "ok", out |-> size]

\* remove_distortion on a W x H image whose valid region is roi: both
\* methods give a W x H image, crop dst[y : y + h, x : x + w] and resize
\* (the library is taken to accept the stored parameters, arrays or lists)
Undistort(method, W, H, roi, size) ==
    LET cw == SliceLen(roi.x, roi.x + roi.w, W)
        ch == SliceLen(roi.y, roi.y + roi.h, H)
    IN [crop |-> <<cw, ch>>, res |-> Resize(cw, ch, size)]

\* the valid regions cv.getOptimalNewCameraMatrix may return for a W x H
\* image (alpha = 0): rectangles of every width and height inside the image,
\* the empty ones included (drawn here against the far corner)
Rois(W, H) ==
    {[x |-> W - w, y |-> H - h, w |-> w, h |-> h] : w \in 0..W, h \in 0..H}
\* the output sizes drawn as img_size (width, height)
Sizes == {<<1, MaxDim>>, <<MaxDim, 1>>}

(* ------------------------------- state --------------------------------- *)
ImageKinds == {"board", "blank", "unreadable"}
ImageLists == UNION {[1..n -> ImageKinds] : n \in 0..MaxImages}

Init ==
    /\ cameraMatrix = None
    /\ distCoeff = None
    /\ files = [p \in FilePaths |->
                  CASE p = BadYaml -> YamlContent({"dist_coeff"}, None, List(1))
                    [] p = BadNpz -> NpzContent({"distCoeff"}, None, Array(1))
                    [] OTHER -> NoFile]
    /\ openHandles = {}
    /\ last = [op |-> "init"]
    /\ pristine = TRUE
    /\ pc = "idle"
    /\ images = <<>>
    /\ idx = 0
    /\ objpoints = <<>>
    /\ imgpoints = <<>>

(* ------------------------------ operations ----------------------------- *)
SaveCalibrationData(path, fmt, cm, dc) ==
    /\ pc = "idle"
    /\ LET out == SaveOutcome(files, path, fmt, cm, dc)
       IN /\ files' = out.files
          /\ last' = [op |-> "save", path |-> path, fmt |-> fmt, cm |-> cm,
                      dc |-> dc, result |-> out.result, written |-> out.written]
    /\ UNCHANGED <<calib, openHandles, pristine, pc, runVars>>

ReadCalibrationData(path, fmt) ==
    /\ pc = "idle"
    /\ LET out == ReadOutcome(path, fmt)
       IN /\ IF out.result = "ok"
             THEN cameraMatrix' = out.cm /\ distCoeff' = out.dc
             ELSE UNCHANGED calib
          /\ openHandles' = HandlesAtExit(openHandles, path, out)
          /\ pristine' = (pristine /\ out.result # "ok")
          /\ last' = [op |-> "read", path |-> path, fmt |-> fmt,
                      result |-> out.result,
                      afterSave |-> /\ last.op = "save"
                                    /\ last.result = "ok"
                                    /\ last.fmt = fmt
                                    /\ path \in last.written]
    /\ UNCHANGED <<files, pc, runVars>>

RemoveDistortion(method, W, H, roi, size) ==
    /\ pc = "idle"
    /\ LET err == DistortionError(method, cameraMatrix, distCoeff)
           u == Undistort(method, W, H, roi, size)
       IN last' = IF err # "none"
                  THEN [op |-> "undistort", method |-> method, size |-> size,
                        crop |-> <<0, 0>>, result |-> err, out |-> <<0, 0>>]
                  ELSE [op |-> "undistort", method |-> method, size |-> size,
                        crop |-> u.crop, result |-> u.res.result,
                        out |-> u.res.out]
    /\ UNCHANGED <<calib, files, openHandles, pristine, pc, runVars>>

(* ---------------------- calculate_calibration_data --------------------- *)
\* the record of a finished call: how it ended, how many files the glob
\* matched, how many the loop got through, how many correspondence pairs
\* were collected, how often cv.calibrateCamera was called, the files saved
CalcRecord(run, result, matched, processed, pairs, solves, written) ==
    [op |-> "calc", run |-> run, result |-> result, matched |-> matched,
     processed |-> processed, pairs |-> pairs, solves |-> solves,
     written |-> written]

\* (AppendObjpoints_Always is a plausible slip: the object points are
\* appended before the test of cornersFound)
\* the lists after the loop body has handled image i of kind kind
\* (objp is the same for every image, the corners are those of image i)
AppendObjpoints_Always(objs, kind) == Append(objs, "objp")
AppendObjpoints(objs, kind) ==
    IF kind = "board" THEN Append(objs, "objp") ELSE objs
AppendImgpoints(imgs, kind, i) ==
    IF kind = "board" THEN Append(imgs, i) ELSE imgs

\* run falsy: the body is skipped
CalcDisabled ==
    /\ pc = "idle"
    /\ last' = CalcRecord(FALSE, "ok", 0, 0, 0, 0, {})
    /\ UNCHANGED <<calib, files, openHandles, pristine, pc, runVars>>

\* run truthy: the lists are created and the glob pattern is expanded
CalcBegin(imgs) ==
    /\ pc = "idle"
    /\ pc' = "loop"
    /\ images' = imgs
    /\ idx' = 0
    /\ objpoints' = <<>>
    /\ imgpoints' = <<>>
    /\ pristine' = FALSE
    /\ last' = [op |-> "calc-begin"]
    /\ UNCHANGED <<calib, files, openHandles>>

\* one iteration of the loop over the images; cv.imread gives None for a
\* file it cannot decode and cv.cvtColor then raises, ending the call
CalcImage ==
    /\ pc = "loop"
    /\ idx < Len(images)
    /\ LET i == idx + 1
           kind == images[i]
       IN IF kind = "unreadable"
          THEN /\ pc' = "idle"
               /\ last' = CalcRecord(TRUE, "cv-error", Len(images), idx,
                                     Len(objpoints), 0, {})
               /\ images' = <<>>
               /\ idx' = 0
               /\ objpoints' = <<>>
               /\ imgpoints' = <<>>
          ELSE /\ idx' = i
               /\ objpoints' = AppendObjpoints(objpoints, kind)
               /\ imgpoints' = AppendImgpoints(imgpoints, kind, i)
               /\ last' = [op |-> "calc-image"]
               /\ UNCHANGED <<pc, images>>
    /\ UNCHANGED <<calib, files, openHandles, pristine>>

\* after the loop: cv.calibrateCamera (an error of the library on an empty
\* collection), the two assignments, the save (savepath and saveformat are
\* first used here) and the reprojection error, whose divisor
\* len(objpoints) is not zero once the solve has succeeded
CalcSolve(cm, dc, savepath, saveformat) ==
    /\ pc = "loop"
    /\ idx = Len(images)
    /\ IF objpoints = <<>>
       THEN /\ last' = CalcRecord(TRUE, "cv-error", Len(images), idx, 0, 1, {})
            /\ UNCHANGED <<calib, files>>
       ELSE LET out == SaveOutcome(files, savepath, saveformat, cm, dc)
            IN /\ cameraMatrix' = cm
               /\ distCoeff' = dc
               /\ files' = out.files
               /\ last' = CalcRecord(TRUE, out.result, Len(images), idx,
                                     Len(objpoints), 1, out.written)
    /\ pc' = "idle"
    /\ images' = <<>>
    /\ idx' = 0
    /\ objpoints' = <<>>
    /\ imgpoints' = <<>>
    /\ UNCHANGED <<openHandles, pristine>>

\* the runtime finalizes the NpzFile objects that are no longer referenced
Collect ==
    /\ pc = "idle"
    /\ openHandles # {}
    /\ openHandles' = {}
    /\ last' = [op |-> "gc"]
    /\ UNCHANGED <<calib, files, pristine, pc, runVars>>

Next ==
    \/ \E path \in SavePaths, fmt \in FormatInputs, p \in Params :
          SaveCalibrationData(path, fmt, p[1], p[2])
    \/ \E path \in ReadPaths, fmt \in FormatInputs : ReadCalibrationData(path, fmt)
    \/ \E method \in MethodInputs, W \in 1..MaxDim, H \in 1..MaxDim, size \in Sizes :
          \E roi \in Rois(W, H) : RemoveDistortion(method, W, H, roi, size)
    \/ CalcDisabled
    \/ \E imgs \in ImageLists : CalcBegin(imgs)
    \/ CalcImage
    \/ \E p \in Params, savepath \in SavePaths, saveformat \in FormatInputs :
          CalcSolve(p[1], p[2], savepath, saveformat)
    \/ Collect

Spec == Init /\ [][Next]_vars

(* ------------------------------- claims -------------------------------- *)
Populated == cameraMatrix # None /\ distCoeff # None

\* C1: while no enabled calibration run has begun and no read has succeeded
\* (pristine: only failed reads, disabled calibration calls, saves and
\* remove_distortion calls have happened), remove_distortion with method
\* "default" or "Remapping" fails with the precondition error and returns no
\* image.
C1_PreconditionBeforeLoad ==
    (last.op = "undistort" /\ pristine /\ last.method \in Methods)
        => (last.result = "precondition" /\ last.out = <<0, 0>>)

\* C1 witness: a pristine calibrator, after a save has written a file,
\* refuses method "Remapping" with the precondition error.
C1_Witness ==
    /\ last.op = "undistort" /\ pristine /\ last.method = "Remapping"
    /\ last.result = "precondition"
    /\ files[PklFile] # NoFile

\* C2: remove_distortion with a method other than "default" and "Remapping"
\* fails with the invalid-argument error, whether or not the calibrator is
\* populated (never with the precondition error).
C2_InvalidMethod ==
    (last.op = "undistort" /\ last.method \notin Methods)
        => last.result = "invalid-argument"

\* C2 witness: an unpopulated calibrator reports invalid-argument, not the
\* precondition error, for method "fast".
C2_Witness ==
    /\ last.op = "undistort" /\ last.method = "fast"
    /\ ~Populated
    /\ last.result = "invalid-argument"

\* C3: read_calibration_data on a path that does not exist fails with the
\* missing-file error, for every format value and in every calibrator state.
C3_MissingFile ==
    (last.op = "read" /\ ~exists(last.path)) => last.result = "missing-file"

\* C3 witness: a populated calibrator reads a missing path with an
\* unsupported format and gets the missing-file error.
C3_Witness ==
    /\ last.op = "read" /\ ~exists(last.path) /\ last.fmt \notin Formats
    /\ Populated
    /\ last.result = "missing-file"

\* C4 as stated: read_calibration_data with a format other than "pkl",
\* "yaml", "npz" always fails with the unsupported-format error.
C4_Original ==
    (last.op = "read" /\ last.fmt \notin Formats)
        => last.result = "unsupported-format"

\* C4 amended: read_calibration_data with a format other than "pkl", "yaml",
\* "npz" fails with the unsupported-format error when the path exists, and
\* with the missing-file error when it does not.
C4_UnsupportedFormat ==
    (last.op = "read" /\ last.fmt \notin Formats)
        => last.result = IF exists(last.path) THEN "unsupported-format"
                         ELSE "missing-file"

\* C4 witness: an existing calibration file read with format "txt".
C4_Witness ==
    /\ last.op = "read" /\ last.fmt \notin Formats
    /\ last.path = PklFile /\ exists(PklFile)
    /\ last.result = "unsupported-format"

\* a read of path with format fmt right after a successful save in a
\* supported format
ReadFollowsSave(path, fmt) ==
    /\ last.op = "save" /\ last.result = "ok" /\ last.fmt \in Formats
    /\ last'.op = "read" /\ last'.path = path /\ last'.fmt = fmt

\* C5 as stated: a save in a supported format followed by a read of the same
\* path in the same format succeeds and leaves cameraMatrix = M and
\* distCoeff = D.
C5_Original ==
    [][ReadFollowsSave(last.path, last.fmt)
          => /\ last'.result = "ok"
             /\ cameraMatrix' = last.cm
             /\ distCoeff' = last.dc]_vars

\* C5 amended: a save in a supported format into an existing directory p
\* followed by a read, in the same format, of the file the save wrote
\* (calibration.pkl in p for "pkl" and "yaml", calibration.npz in p for
\* "npz") succeeds and leaves cameraMatrix = M and distCoeff = D for "pkl"
\* and "npz", and the nested lists of M and D for "yaml".
C5_RoundTrip ==
    [][ReadFollowsSave(
           join(last.path, IF last.fmt = "npz" THEN NpzName ELSE PklName),
           last.fmt)
          => /\ last'.result = "ok"
             /\ cameraMatrix' =
                  IF last.fmt = "yaml" THEN List(last.cm.v) ELSE last.cm
             /\ distCoeff' =
                  IF last.fmt = "yaml" THEN List(last.dc.v) ELSE last.dc]_vars

\* C5 witness: a yaml file read back right after it was saved; the
\* calibrator holds lists.
C5_Witness ==
    /\ last.op = "read" /\ last.afterSave /\ last.fmt = "yaml"
    /\ last.result = "ok"
    /\ cameraMatrix.t = "list" /\ distCoeff.t = "list"

\* C6 as stated: cameraMatrix and distCoeff are both absent or both present,
\* and a step changes them only if it is a calibration run that completes
\* successfully or a read that returns successfully.
C6_Original ==
    [][/\ (cameraMatrix' = None) = (distCoeff' = None)
       /\ calib' # calib
            => /\ last'.op \in {"calc", "read"}
               /\ last'.result = "ok"]_vars

\* C7 as stated: with the calibrator populated and method "default" or
\* "Remapping", remove_distortion returns an image of exactly the requested
\* size, whatever the input size and the crop rectangle, empty crops
\* included.
C7_Original ==
    (last.op = "undistort" /\ Populated /\ last.method \in Methods)
        => (last.result = "ok" /\ last.out = last.size)

\* C8 as stated: save_calibration_data writes exactly one file for "pkl",
\* "yaml" and "npz"; for any other format it writes nothing, raises nothing
\* and returns; it never changes cameraMatrix or distCoeff.
C8_Original ==
    [][last'.op = "save"
          => /\ calib' = calib
             /\ \A f \in FilePaths \ last'.written : files'[f] = files[f]
             /\ last'.fmt \in Formats => Cardinality(last'.written) = 1
             /\ last'.fmt \notin Formats
                  => (last'.written = {} /\ last'.result = "ok")]_vars

\* C8 amended: save_calibration_data writes exactly one file for "pkl",
\* "yaml" and "npz" when savepath is an existing directory, and raises the
\* error of open without writing a file when it is not; for any other format
\* it writes nothing, raises nothing and returns; it never changes
\* cameraMatrix or distCoeff.
C8_SaveWrites ==
    [][last'.op = "save"
          => /\ calib' = calib
             /\ \A f \in FilePaths \ last'.written : files'[f] = files[f]
             /\ (last'.fmt \in Formats /\ last'.path \in Dirs)
                  => (Cardinality(last'.written) = 1 /\ last'.result = "ok")
             /\ (last'.fmt \in Formats /\ last'.path \notin Dirs)
                  => (last'.written = {} /\ last'.result = "os-error")
             /\ last'.fmt \notin Formats
                  => (last'.written = {} /\ last'.result = "ok")]_vars

\* C8 witness: a save with an unrecognized format into a missing directory
\* returned normally and wrote nothing.
C8_Witness ==
    /\ last.op = "save" /\ last.fmt \notin Formats /\ last.path = NoDir
    /\ last.result = "ok" /\ last.written = {}

\* the images among the first n matched on which detection succeeds
Successes(n) == {i \in 1..n : images[i] = "board"}

C10_Original == openHandles = {}

====
